---- MODULE Spec2Model ----
(***************************************************************************)
(* Model of the OLED RotorHazard display plugin.                           *)
(*                                                                         *)
(*   src/custom_plugins/oled_rotorhazard_display/oled_display.py           *)
(*       class OLEDDisplay: the display controller and its tick thread     *)
(*   src/__init__.py                                                       *)
(*       the plugin's handlers: initialize, startup_handler,               *)
(*       delayed_startup, shutdown_handler, lap_recorded_handler           *)
(*                                                                         *)
(* Time is counted in whole seconds.  time.sleep(n) and join(timeout=n)    *)
(* are count-down timers that the clock decrements.  Ordinary statements   *)
(* take no measurable time; the statements of the host context, of the     *)
(* delayed_startup thread and of the tick threads interleave freely.       *)
(* The model covers the case in which the display module was imported      *)
(* (DISPLAY_MODULE_AVAILABLE); the host calls initialize once, before it   *)
(* delivers any notification, and delivers the startup notification once.  *)
(*                                                                         *)
(*   Spec      the life cycle from module load on                          *)
(*   SpecMode  the running controller with lap events and race changes     *)
(*   SpecDet   mode selection on two controllers side by side              *)
(*   SpecFault the running controller with failing telemetry and panel     *)
(*   SpecLap   the running controller with lap notifications of any shape  *)
(***************************************************************************)
EXTENDS Integers, FiniteSets, Sequences, TLC

\* ------------------------------------------------------------------ bounds
MaxThreads == 2
MaxLaps == 2
MaxStatusChanges == 2
MaxShutdowns == 2
EpochStart == 1
LifeMaxTime == 19
IdleAtStart == 52
ModeWindow == 11
MaxPanelChanges == 2
FaultWindow == 12
LapWindow == 2
EventWindow == 3
MaxSensors == 4

\* ------------------------------------------------------- program constants
TickInterval == 2
LapTTL == 5
BurnInAfter == 60
JoinTimeout == 2
StartupDelay == 15
InitSettle == 1
ErrorDelay == 5
max_errors == 5

NoRace == -1
NoThread == 0
NoTime == -1
NoNumber == -1

Threads == 1..MaxThreads
Contexts == {"host", "delayed"}
RaceStatuses == {NoRace, 0, 1, 2, 3}
Modes == {"VoltageMonitor", "RaceStanding", "LapNotice", "BurnInGuard"}
IdleModes == {"VoltageMonitor", "BurnInGuard"}

\* What the host's sensor interface holds:
\*   ok          sensors_dict = {"Battery": {"voltage": {"value": 7.4, "units": "V"}}}
\*   absent      rhapi has no attribute sensors
\*   null        rhapi.sensors is None
\*   empty       sensors_dict = {}
\*   no_voltage  sensors_dict = {"Temp": {"temperature": ...}}
\*   raises      reading sensors_dict raises
\*   malformed   sensors_dict = {"Battery": {"voltage": 7.4}}
SensorKinds == {"ok", "absent", "null", "empty", "no_voltage", "raises", "malformed"}

\* What rhapi.race.results holds during a race: None, a mapping without the
\* key 'by_race_time', one whose 'by_race_time' is the empty list, one with
\* the standing of a pilot, or a property whose read raises.
ResultKinds == {"none", "no_key", "empty", "standings", "raises"}

VARIABLES
    now,                          \* time.time()
    race_status,                  \* rhapi.race.status (NoRace: no race object)
    status_changes,
    plugin_rhapi, oled_display,   \* module globals of __init__.py
    display, display_enabled,     \* OLEDDisplay fields
    show_race_info, last_lap_info, race_info_timeout,
    voltage_monitor_start_time, burn_in_protection_active,
    display_thread, thread_running,
    pc, timer, join_target,       \* host context and delayed_startup thread
    tpc, tsleep, tborn,           \* the _display_loop threads
    panel,                        \* what the panel shows
    laps, startup_fired, shutdowns, cleanups, cleanup_clears,
    shutdown_during_delay,
    last_tick, last_active, lap_T,
    twinA, twinB, det,
    sensors_dict,                 \* rhapi.sensors.sensors_dict, sensor by sensor
    voltage_data,                 \* the snapshot handed to a display function
    draws,                        \* its draw.text calls: position and text
    sensors,                      \* what rhapi.sensors holds
    results,                      \* what rhapi.race.results holds
    panel_ok, panel_changes,      \* whether the panel accepts a frame
    font,                         \* OLEDDisplay.font
    init_outcome,                 \* how initialize_display ended
    initialize_result,            \* what initialize returned to the host
    frame,                        \* the text lines of the frame on the panel
    lap_args                      \* the last lap-recorded notification

envVars == <<now, race_status, status_changes>>
ctlVars == <<plugin_rhapi, oled_display, display, display_enabled, show_race_info,
             last_lap_info, race_info_timeout, voltage_monitor_start_time,
             burn_in_protection_active, display_thread, thread_running>>
ctxVars == <<pc, timer, join_target>>
thrVars == <<tpc, tsleep, tborn>>
histVars == <<laps, startup_fired, shutdowns, cleanups, cleanup_clears,
              shutdown_during_delay, last_tick, last_active, lap_T>>
detVars == <<twinA, twinB, det, sensors_dict, voltage_data, draws>>
faultVars == <<sensors, results, panel_ok, panel_changes>>
bootVars == <<font, init_outcome, initialize_result>>
vars == <<envVars, ctlVars, ctxVars, thrVars, panel, histVars, detVars, faultVars, bootVars,
          frame, lap_args>>

\* ----------------------------------------------------------------- helpers
LapInfo(n) ==
    [pilot_name |-> "Red5", lap_number |-> n, lap_time |-> "0:24.531", position |-> "None"]

NoTick ==
    [t |-> NoTime, t2 |-> NoTime, by |-> NoThread, pending |-> FALSE, consulted |-> FALSE,
     status |-> NoRace, dur |-> NoTime, mode |-> "None", drawn |-> "None",
     prev |-> "None", injT |-> NoTime, failed |-> FALSE, streak |-> 0,
     late |-> 0, lateby |-> NoThread]

Dec(n) == IF n > 0 THEN n - 1 ELSE 0

\* threading.Thread.is_alive(): started and not yet returned from _display_loop
ThreadAlive(i) == tpc[i] \in {"test", "upd", "idle1", "idle2", "sleep"}

\* line 110 without the expiry test
LapPending_noExpiry(show, timeout, t) == show

\* update_display line 110: self.show_race_info and time.time() < self.race_info_timeout
LapPending(show, timeout, t) == show /\ t < timeout

\* is_race_active that takes only Staging for an active race
is_race_active_stagingOnly(status) == status \in {1}

\* is_race_active: race_status in [1, 2]; False when there is no race object
is_race_active(status) == status \in {1, 2}

\* update_display with the race test ahead of the lap-notice test
SelectBranch_raceFirst(pending, active) ==
    IF active THEN "RaceStanding" ELSE IF pending THEN "LapNotice" ELSE "Idle"

\* the if / elif / else of update_display
SelectBranch(pending, active) ==
    IF pending THEN "LapNotice" ELSE IF active THEN "RaceStanding" ELSE "Idle"

\* line 116 left out: a RaceStanding tick that keeps the timer
RaceStart_keep(vmst, t) == vmst

\* update_display line 116: self.voltage_monitor_start_time = time.time()
RaceStart(vmst, t) == t

\* an idle branch that restarts the timer on every tick
IdleSince_restart(vmst, t) == t

\* update_display lines 124-125: the timer is set only when it is 0
IdleSince(vmst, t) == IF vmst = 0 THEN t ELSE vmst

\* line 129 with >= in place of >
BurnInDue_ge(dur) == dur >= BurnInAfter

\* update_display line 129: voltage_monitor_duration > 60
BurnInDue(dur) == dur > BurnInAfter

IdleMode(dur) == IF BurnInDue(dur) THEN "BurnInGuard" ELSE "VoltageMonitor"

\* ------------------------------------------------------------------ frames
\* A frame is the sequence of text lines drawn on the canvas; a line is a
\* pair of strings, the fixed text and the formatted value.
Text(s) == <<s, "">>

\* str() of a lap number inside an f-string
NumStr(n) ==
    CASE n = 0 -> "0" [] n = 1 -> "1" [] n = 2 -> "2" [] n = 3 -> "3" [] n = 4 -> "4"
      [] OTHER -> "n"

\* get_voltage_data: the readings of the sensors that have a key containing
\* "voltage"; None when there is no sensor interface, no sensor, no such
\* reading, or when reading sensors_dict raises (line 173)
get_voltage_data(s) == IF s \in {"ok", "malformed"} THEN s ELSE "None"

\* get_race_status: None when there is no race or its status is 0
get_race_status(status) ==
    CASE status = 1 -> "Race: Staging"
      [] status = 2 -> "Race: Running"
      [] status = 3 -> "Race: Finished"
      [] OTHER -> "None"

\* display_normal_voltage_monitor lines 354-370: the sensors there are
SensorInfo(s) ==
    CASE s \in {"absent", "empty"} -> <<Text("Sensor system"), Text("not available")>>
      [] s = "no_voltage" -> <<Text("Sensors: 1"), Text("  Temp")>>
      [] OTHER -> <<Text("Sensor error")>>

\* display_normal_voltage_monitor without the branch of line 348
VoltageBody_blank(s) ==
    IF get_voltage_data(s) = "ok" THEN << <<"Battery: ", "7.40V">> >> ELSE <<>>

\* display_normal_voltage_monitor lines 320-372
VoltageBody(s) ==
    IF get_voltage_data(s) = "ok"
      THEN << <<"Battery: ", "7.40V">> >>
      ELSE <<Text("No voltage sensors")>> \o SensorInfo(s)

\* display_normal_voltage_monitor: header, body, timestamp
VoltageMonitorFrame(s, status) ==
    <<Text(IF get_race_status(status) # "None" THEN get_race_status(status)
                                                ELSE "Voltage Monitor")>>
      \o VoltageBody(s) \o <<Text("HH:MM:SS")>>

\* display_burn_in_protection: the first voltage or "No Data", and the clock
BurnInFrame(s) ==
    <<Text(IF get_voltage_data(s) = "ok" THEN "7.4V" ELSE "No Data"), Text("HH:MM")>>

IdleFrame(mode, s, status) ==
    IF mode = "BurnInGuard" THEN BurnInFrame(s) ELSE VoltageMonitorFrame(s, status)

\* display_race_status lines 260-297, the lines under the header: one line
\* per entry of results['by_race_time'] (here the pilot Red5 with the fastest
\* lap '0:24.531', whose leading '0:' is stripped), the placeholder of the
\* else branch of line 264, or the lines of the except branch
RaceBody(res) ==
    CASE res = "raises" -> <<Text("Race in progress"), Text("Monitoring laps...")>>
      [] res = "standings" -> << <<"1.Red5 ", "24.531">> >>
      [] res = "empty" -> <<>>
      [] OTHER -> <<Text("Waiting for"), Text("race data...")>>

\* display_race_status lines 250-297
RaceFrame(status, res) ==
    <<Text(IF get_race_status(status) # "None" THEN get_race_status(status)
                                                ELSE "Race Active")>> \o RaceBody(res)

\* display_race_info lines 213-237; show_lap_completion always stores the
\* key 'position'
LapFrame(info) ==
    <<Text("LAP COMPLETED"), <<"Pilot: ", info.pilot_name>>,
      <<"Lap: ", NumStr(info.lap_number)>>, <<"Time: ", info.lap_time>>,
      <<"Position: ", info.position>>>>

\* Whether drawing the frame of `mode` raises: the panel does not accept the
\* frame, no font can be loaded for draw.text, or (lines 324, 387) the
\* voltage reading is not a mapping.  The canvas commits no frame then.
RenderRaises(mode, ok, fnt, s) ==
    \/ ~ok
    \/ fnt = "None"
    \/ mode \in IdleModes /\ get_voltage_data(s) = "malformed"

\* update_display that lets the exception of a failed frame through
update_display_raises_through(failed) == failed

\* Whether update_display raises into _display_loop: the except clauses of
\* lines 144, 241 and 299 catch every Exception of a tick
update_display_raises(failed) == FALSE

\* _display_loop lines 98 and 101: time.sleep(2), or time.sleep(5) on error
LoopSleep(raised) == IF raised THEN ErrorDelay ELSE TickInterval


\* The argument of a lap-recorded notification:
\*   empty   the mapping is empty (or None)
\*   pilot   none: no pilot_id; known; unknown: pilot_by_id returns None;
\*           db_error: pilot_by_id raises
\*   lap     none: no 'lap'; object: attributes; dict; other: any other value
\*   number  the lap number, NoNumber when the lap (or args) has none
\*   time    formatted: lap_time_formatted is there; raw: only lap_time in
\*           milliseconds; missing: neither
EmptyArgs ==
    [empty |-> TRUE, pilot |-> "none", lap |-> "none", number |-> NoNumber, time |-> "missing"]

LapArgs ==
    {EmptyArgs} \cup
    {a \in [empty : {FALSE}, pilot : {"none", "known", "unknown", "db_error"},
            lap : {"none", "object", "dict", "other"}, number : {NoNumber, 3},
            time : {"formatted", "raw", "missing"}] :
        a.lap = "other" => (a.number = NoNumber /\ a.time = "missing")}

GoodArgs(n) ==
    [empty |-> FALSE, pilot |-> "known", lap |-> "object", number |-> n, time |-> "formatted"]

NoArgs == [args |-> EmptyArgs, call |-> <<>>, over |-> FALSE]

\* ------------------------------------------------------------------- state
\* The module has been imported; the host has not called initialize yet.
InitCommon ==
    /\ status_changes = 0
    /\ show_race_info = FALSE
    /\ last_lap_info = <<>>
    /\ race_info_timeout = 0
    /\ burn_in_protection_active = FALSE
    /\ join_target = NoThread
    /\ laps = 0
    /\ shutdowns = 0
    /\ cleanups = 0
    /\ cleanup_clears = 0
    /\ shutdown_during_delay = 0
    /\ last_tick = NoTick
    /\ last_active = NoTime
    /\ lap_T = NoTime
    /\ lap_args = NoArgs

\* The sensors deliver a voltage and the panel accepts every frame.
NoFaults ==
    /\ sensors = "ok"
    /\ results = "none"
    /\ panel_ok = TRUE
    /\ panel_changes = 0

DetIdle ==
    /\ twinA = [show |-> FALSE, lap |-> <<>>, timeout |-> 0, vmst |-> EpochStart, burn |-> FALSE]
    /\ twinB = [show |-> FALSE, lap |-> <<>>, timeout |-> 0, vmst |-> EpochStart, burn |-> FALSE]
    /\ det = [a |-> "None", b |-> "None", same |-> FALSE]
    /\ sensors_dict = <<>>
    /\ voltage_data = <<>>
    /\ draws = <<>>

Init ==
    /\ InitCommon
    /\ NoFaults
    /\ race_status \in {0, 2}
    /\ DetIdle
    /\ font = "None"
    /\ init_outcome = "none"
    /\ initialize_result = "none"
    /\ frame = <<>>
    /\ now = EpochStart
    /\ plugin_rhapi = FALSE
    /\ oled_display = FALSE
    /\ display = "None"
    /\ display_enabled = FALSE
    /\ voltage_monitor_start_time = 0
    /\ display_thread = NoThread
    /\ thread_running = FALSE
    /\ pc = [c \in Contexts |-> IF c = "host" THEN "load" ELSE "none"]
    /\ timer = [c \in Contexts |-> 0]
    /\ tpc = [i \in Threads |-> "unborn"]
    /\ tsleep = [i \in Threads |-> 0]
    /\ tborn = [i \in Threads |-> 0]
    /\ panel = "off"
    /\ startup_fired = FALSE

\* ------------------------------------------------------------- environment
\* A context that is about to execute ordinary statements.  Such statements
\* take no measurable time at the clock's resolution of one second.
ContextReady(c) ==
    \/ pc[c] \in {"load", "start_check", "start_set", "start_create", "start_run",
                  "stop_check", "clear", "lap_show", "lap_timeout"}
    \/ pc[c] \in {"init_sleep", "sleep"} /\ timer[c] = 0
    \/ pc[c] = "join" /\ (~ThreadAlive(join_target) \/ timer[c] = 0)

\* A tick thread that is about to execute ordinary statements.  `blocking` is
\* the set of places at which the thread may be held up by input/output.
ThreadReady(i, blocking) ==
    \/ tpc[i] \in {"test", "upd", "idle1", "idle2"} \ blocking
    \/ tpc[i] = "sleep" /\ tsleep[i] = 0

\* update_display's telemetry and panel input/output in the idle branch
\* (lines 132-142) is not bounded by the code.
PanelIO == {"idle2"}

\* The clock advances by one second; sleeps and the join timeout count down.
\* It advances while every context is blocked: in time.sleep, in join, waiting
\* for the host's next event, or held up at one of the `blocking` places.
Advance(cap, blocking) ==
    /\ now < cap
    /\ \A c \in Contexts : ~ContextReady(c)
    /\ \A i \in Threads : ~ThreadReady(i, blocking)
    /\ now' = now + 1
    /\ timer' = [c \in Contexts |-> Dec(timer[c])]
    /\ tsleep' = [i \in Threads |-> Dec(tsleep[i])]
    /\ UNCHANGED <<race_status, status_changes, ctlVars, pc, join_target, tpc, tborn,
                   panel, histVars, detVars, faultVars, bootVars, frame, lap_args>>

\* The host's race changes its status.
StatusChange ==
    /\ status_changes < MaxStatusChanges
    /\ \E s \in RaceStatuses \ {race_status} : race_status' = s
    /\ status_changes' = status_changes + 1
    /\ UNCHANGED <<now, ctlVars, ctxVars, thrVars, panel, histVars,
                   detVars, faultVars, bootVars, frame, lap_args>>

\* ----------------------------------------------------- __init__.initialize
\* initialize_display lines 51-61: the TrueType font, else PIL's default
\* font, else None with a warning; the font is loaded once the device exists.
FontsLoaded(outcome) == IF outcome = "no_panel" THEN {"None"} ELSE {"loaded", "None"}

\* OLEDDisplay.__init__ and initialize_display; on success initialize goes
\* on to time.sleep(1) and start_display_thread().
Initialize ==
    /\ pc["host"] = "load"
    /\ plugin_rhapi' = TRUE
    /\ oled_display' = TRUE
    /\ show_race_info' = FALSE
    /\ last_lap_info' = <<>>
    /\ race_info_timeout' = 0
    /\ voltage_monitor_start_time' = now
    /\ burn_in_protection_active' = FALSE
    /\ display_thread' = NoThread
    /\ thread_running' = FALSE
    /\ \E outcome \in {"ok", "no_panel", "clear_fails"} :
          /\ display' = IF outcome = "no_panel" THEN "None" ELSE "sh1106"
          /\ \E f \in FontsLoaded(outcome) : font' = f
          /\ init_outcome' = outcome
          /\ display_enabled' = (outcome = "ok")
          /\ panel' = IF outcome = "ok" THEN "blank" ELSE panel
          /\ initialize_result' = IF outcome = "ok" THEN "pending" ELSE "False"
          /\ pc' = [pc EXCEPT !["host"] = IF outcome = "ok" THEN "init_sleep" ELSE "idle"]
          /\ timer' = [timer EXCEPT !["host"] = IF outcome = "ok" THEN InitSettle ELSE 0]
    /\ UNCHANGED <<envVars, join_target, thrVars, histVars, detVars, faultVars, frame, lap_args>>

InitializeSettled ==
    /\ pc["host"] = "init_sleep"
    /\ timer["host"] = 0
    /\ pc' = [pc EXCEPT !["host"] = "start_check"]
    /\ UNCHANGED <<envVars, ctlVars, timer, join_target, thrVars, panel, histVars,
                   detVars, faultVars, bootVars, frame, lap_args>>

\* ------------------------------------------------------ start_display_thread
Return(c) == IF c = "host" THEN "idle" ELSE "done"

\* initialize line 207: return True once its start_display_thread() is back
Returned(c) == IF c = "host" THEN "True" ELSE initialize_result

\* start_display_thread without the test of line 77
AlreadyRunning_never == FALSE

\* OLEDDisplay.start_display_thread line 77:
\* self.display_thread and self.display_thread.is_alive()
AlreadyRunning == display_thread # NoThread /\ ThreadAlive(display_thread)

\* __init__.start_display_thread without the test of display_enabled
StartAllowed_noEnabledTest == oled_display

\* __init__.start_display_thread lines 65-67
StartAllowed == oled_display /\ display_enabled

\* __init__.start_display_thread (oled_display and display_enabled), then
\* OLEDDisplay.start_display_thread line 77: return if the thread is alive.
StartGuard(c) ==
    /\ pc[c] = "start_check"
    /\ pc' = [pc EXCEPT ![c] =
                IF ~StartAllowed THEN Return(c)
                ELSE IF AlreadyRunning THEN Return(c)
                ELSE "start_set"]
    /\ initialize_result' = IF pc'[c] = Return(c) THEN Returned(c) ELSE initialize_result
    /\ UNCHANGED <<envVars, ctlVars, timer, join_target, thrVars, panel, histVars, detVars,
                   faultVars, font, init_outcome, frame, lap_args>>

\* line 81: self.thread_running = True
StartSetRunning(c) ==
    /\ pc[c] = "start_set"
    /\ thread_running' = TRUE
    /\ pc' = [pc EXCEPT ![c] = "start_create"]
    /\ UNCHANGED <<envVars, plugin_rhapi, oled_display, display, display_enabled,
                   show_race_info, last_lap_info, race_info_timeout,
                   voltage_monitor_start_time, burn_in_protection_active, display_thread,
                   timer, join_target, thrVars, panel, histVars,
                   detVars, faultVars, bootVars, frame, lap_args>>

\* line 82: self.display_thread = threading.Thread(target=self._display_loop)
StartCreate(c) ==
    /\ pc[c] = "start_create"
    /\ \E i \in Threads :
          /\ tpc[i] = "unborn"
          /\ \A j \in Threads : j < i => tpc[j] # "unborn"
          /\ display_thread' = i
          /\ tpc' = [tpc EXCEPT ![i] = "created"]
          /\ tborn' = [tborn EXCEPT ![i] = cleanups]
    /\ pc' = [pc EXCEPT ![c] = "start_run"]
    /\ UNCHANGED <<envVars, plugin_rhapi, oled_display, display, display_enabled,
                   show_race_info, last_lap_info, race_info_timeout,
                   voltage_monitor_start_time, burn_in_protection_active, thread_running,
                   timer, join_target, tsleep, panel, histVars,
                   detVars, faultVars, bootVars, frame, lap_args>>

\* line 83: self.display_thread.start()
StartRun(c) ==
    /\ pc[c] = "start_run"
    /\ tpc' = [tpc EXCEPT ![display_thread] =
                 IF tpc[display_thread] = "created" THEN "test" ELSE @]
    /\ pc' = [pc EXCEPT ![c] = Return(c)]
    /\ initialize_result' = Returned(c)
    /\ UNCHANGED <<envVars, ctlVars, timer, join_target, tsleep, tborn, panel, histVars,
                   detVars, faultVars, font, init_outcome, frame, lap_args>>

\* ------------------------------------- startup_handler and delayed_startup
StartupHandler ==
    /\ pc["host"] = "idle"
    /\ ~startup_fired
    /\ startup_fired' = TRUE
    /\ IF plugin_rhapi
         THEN /\ pc' = [pc EXCEPT !["delayed"] = "sleep"]
              /\ timer' = [timer EXCEPT !["delayed"] = StartupDelay]
         ELSE UNCHANGED <<pc, timer>>
    /\ UNCHANGED <<envVars, ctlVars, join_target, thrVars, panel, laps, shutdowns, cleanups,
                   cleanup_clears, shutdown_during_delay, last_tick, last_active, lap_T,
                   detVars, faultVars, bootVars, frame, lap_args>>

\* time.sleep(15) has returned; delayed_startup calls start_display_thread()
DelayedStartup ==
    /\ pc["delayed"] = "sleep"
    /\ timer["delayed"] = 0
    /\ pc' = [pc EXCEPT !["delayed"] = "start_check"]
    /\ UNCHANGED <<envVars, ctlVars, timer, join_target, thrVars, panel, histVars,
                   detVars, faultVars, bootVars, frame, lap_args>>

\* ------------------------------------------- shutdown_handler and cleanup
\* shutdown_handler -> cleanup -> stop_display_thread line 88
ShutdownHandler ==
    /\ pc["host"] = "idle"
    /\ shutdowns < MaxShutdowns
    /\ shutdowns' = shutdowns + 1
    /\ shutdown_during_delay' =
           IF shutdown_during_delay = 0 /\ pc["delayed"] = "sleep"
             THEN shutdowns + 1 ELSE shutdown_during_delay
    /\ IF oled_display
         THEN /\ thread_running' = FALSE
              /\ pc' = [pc EXCEPT !["host"] = "stop_check"]
         ELSE UNCHANGED <<thread_running, pc>>
    /\ UNCHANGED <<envVars, plugin_rhapi, oled_display, display, display_enabled,
                   show_race_info, last_lap_info, race_info_timeout,
                   voltage_monitor_start_time, burn_in_protection_active, display_thread,
                   timer, join_target, thrVars, panel, laps, startup_fired, cleanups,
                   cleanup_clears, last_tick, last_active, lap_T,
                   detVars, faultVars, bootVars, frame, lap_args>>

\* stop_display_thread lines 89-90: join(timeout=2) if the thread is alive
StopJoin ==
    /\ pc["host"] = "stop_check"
    /\ IF display_thread # NoThread /\ ThreadAlive(display_thread)
         THEN /\ pc' = [pc EXCEPT !["host"] = "join"]
              /\ timer' = [timer EXCEPT !["host"] = JoinTimeout]
              /\ join_target' = display_thread
         ELSE /\ pc' = [pc EXCEPT !["host"] = "clear"]
              /\ UNCHANGED <<timer, join_target>>
    /\ UNCHANGED <<envVars, ctlVars, thrVars, panel, histVars,
                   detVars, faultVars, bootVars, frame, lap_args>>

\* join returns when the thread has ended or the timeout has run out
JoinDone(i) == ~ThreadAlive(i) \/ timer["host"] = 0

JoinReturn ==
    /\ pc["host"] = "join"
    /\ JoinDone(join_target)
    /\ pc' = [pc EXCEPT !["host"] = "clear"]
    /\ timer' = [timer EXCEPT !["host"] = 0]
    /\ join_target' = NoThread
    /\ UNCHANGED <<envVars, ctlVars, thrVars, panel, histVars,
                   detVars, faultVars, bootVars, frame, lap_args>>

\* cleanup lines 431-433: if self.display: self.display.clear(); cleanup returns
CleanupClear ==
    /\ pc["host"] = "clear"
    /\ IF display # "None"
         THEN /\ panel' = "blank"
              /\ frame' = <<>>
              /\ cleanup_clears' = cleanup_clears + 1
         ELSE UNCHANGED <<panel, frame, cleanup_clears>>
    /\ cleanups' = cleanups + 1
    /\ pc' = [pc EXCEPT !["host"] = "idle"]
    /\ UNCHANGED <<envVars, ctlVars, timer, join_target, thrVars, laps, startup_fired,
                   shutdowns, shutdown_during_delay, last_tick, last_active, lap_T, detVars,
                   faultVars, bootVars, lap_args>>

\* ------------------------------ lap_recorded_handler / show_lap_completion
\* lap_recorded_handler with 1 for the lap number that is not there
HandlerLapNumber_one(a) ==
    IF a.lap = "other" \/ a.number = NoNumber THEN 1 ELSE a.number

\* lap_recorded_handler lines 90-105 and 124: the lap's lap_number, 0 when an
\* object or a dict has none, when the lap is of another type, and
\* args.get('lap_number', 0) when there is no lap
HandlerLapNumber(a) ==
    CASE a.lap = "object" -> IF a.number # NoNumber THEN a.number ELSE 0
      [] a.lap = "dict" -> IF a.number # NoNumber THEN a.number ELSE 0
      [] a.lap = "other" -> 0
      [] OTHER -> IF a.number # NoNumber THEN a.number ELSE 0

\* lines 108-121: lap_time formatted from milliseconds
FormatRaw(a) == IF a.time = "raw" THEN "0:24.531" ELSE "N/A"

\* lap_recorded_handler lines 90-125: lap_time_formatted, else the raw
\* lap_time formatted, else 'N/A'.  An object without lap_number is not taken
\* for a lap object (line 92) and an args mapping has only lap_time_formatted.
HandlerLapTime(a) ==
    CASE a.lap = "object" ->
             IF a.number = NoNumber THEN "N/A"
             ELSE IF a.time = "formatted" THEN "0:24.531" ELSE FormatRaw(a)
      [] a.lap = "dict" -> IF a.time = "formatted" THEN "0:24.531" ELSE FormatRaw(a)
      [] a.lap = "other" -> "N/A"
      [] OTHER -> IF a.time = "formatted" THEN "0:24.531" ELSE "N/A"

\* lap_recorded_handler lines 128-136
HandlerPilotName(a) ==
    CASE a.pilot = "known" -> "Red5"
      [] a.pilot = "db_error" -> "Pilot 7"
      [] OTHER -> "Unknown"

\* what lap_recorded_handler passes to show_lap_completion, which adds
\* position=None
HandlerCall(a) ==
    [pilot_name |-> HandlerPilotName(a), lap_number |-> HandlerLapNumber(a),
     lap_time |-> HandlerLapTime(a), position |-> "None"]

\* lap_recorded_handler with arguments a: nothing when args is empty
\* (line 82), else show_lap_completion line 415: self.last_lap_info = {...}
LapRecorded(a) ==
    /\ pc["host"] = "idle"
    /\ oled_display
    /\ laps < MaxLaps
    /\ laps' = laps + 1
    /\ IF a.empty
         THEN /\ lap_args' = [args |-> a, call |-> <<>>, over |-> FALSE]
              /\ UNCHANGED <<last_lap_info, pc>>
         ELSE /\ lap_args' = [args |-> a, call |-> <<HandlerCall(a)>>,
                               over |-> LapPending(show_race_info, race_info_timeout, now)]
              /\ last_lap_info' = <<HandlerCall(a)>>
              /\ pc' = [pc EXCEPT !["host"] = "lap_show"]
    /\ UNCHANGED <<envVars, plugin_rhapi, oled_display, display, display_enabled,
                   show_race_info, race_info_timeout, voltage_monitor_start_time,
                   burn_in_protection_active, display_thread, thread_running,
                   timer, join_target, thrVars, panel, startup_fired, shutdowns, cleanups,
                   cleanup_clears, shutdown_during_delay, last_tick, last_active, lap_T,
                   detVars, faultVars, bootVars, frame>>

\* line 421: self.show_race_info = True
LapShow ==
    /\ pc["host"] = "lap_show"
    /\ show_race_info' = TRUE
    /\ pc' = [pc EXCEPT !["host"] = "lap_timeout"]
    /\ UNCHANGED <<envVars, plugin_rhapi, oled_display, display, display_enabled,
                   last_lap_info, race_info_timeout, voltage_monitor_start_time,
                   burn_in_protection_active, display_thread, thread_running,
                   timer, join_target, thrVars, panel, histVars,
                   detVars, faultVars, bootVars, frame, lap_args>>

\* show_lap_completion that draws the lap notice itself
LapTimeout_draws ==
    /\ pc["host"] = "lap_timeout"
    /\ race_info_timeout' = now + LapTTL
    /\ lap_T' = now
    /\ panel' = "LapNotice"
    /\ frame' = IF last_lap_info = <<>> THEN frame ELSE LapFrame(last_lap_info[1])
    /\ pc' = [pc EXCEPT !["host"] = "idle"]
    /\ UNCHANGED <<envVars, plugin_rhapi, oled_display, display, display_enabled,
                   show_race_info, last_lap_info, voltage_monitor_start_time,
                   burn_in_protection_active, display_thread, thread_running,
                   timer, join_target, thrVars, laps, startup_fired, shutdowns,
                   cleanups, cleanup_clears, shutdown_during_delay, last_tick, last_active,
                   detVars, faultVars, bootVars, lap_args>>

\* line 422: self.race_info_timeout = time.time() + 5
LapTimeout ==
    /\ pc["host"] = "lap_timeout"
    /\ race_info_timeout' = now + LapTTL
    /\ lap_T' = now
    /\ pc' = [pc EXCEPT !["host"] = "idle"]
    /\ UNCHANGED <<envVars, plugin_rhapi, oled_display, display, display_enabled,
                   show_race_info, last_lap_info, voltage_monitor_start_time,
                   burn_in_protection_active, display_thread, thread_running,
                   timer, join_target, thrVars, panel, laps, startup_fired, shutdowns,
                   cleanups, cleanup_clears, shutdown_during_delay, last_tick, last_active,
                   detVars, faultVars, bootVars, frame, lap_args>>

\* ---------------------------------------- _display_loop and update_display
\* a loop that ends with the first tick that failed
LoopGoesOn_untilError(running, failed) == running /\ ~failed

\* a loop that never reads the flag
LoopGoesOn_forever(running, failed) == TRUE

\* lines 95-101: the loop test reads the flag only; a tick that failed before
\* it was caught (lines 99, 144) and does not end the loop
LoopGoesOn(running, failed) == running

\* line 95: while self.thread_running
LoopTest(i) ==
    /\ \/ tpc[i] = "test"
       \/ tpc[i] = "sleep" /\ tsleep[i] = 0
    /\ tpc' = [tpc EXCEPT ![i] =
                  IF LoopGoesOn(thread_running, last_tick.by = i /\ last_tick.failed)
                    THEN "upd" ELSE "dead"]
    /\ UNCHANGED <<envVars, ctlVars, ctxVars, tsleep, tborn, panel, histVars,
                   detVars, faultVars, bootVars, frame, lap_args>>

\* How many calls of update_display thread i has made with the running flag
\* cleared, this one included.
LateTicks(i) ==
    IF thread_running THEN 0
    ELSE (IF last_tick.lateby = i THEN last_tick.late ELSE 0) + 1

\* update_display lines 105-119.  A pending lap event is drawn by
\* display_race_info (which draws nothing when last_lap_info is None), an
\* active race by display_race_status; both return to the loop's sleep.
\* Otherwise the tick goes on to the idle branch.
UpdateSelect(i) ==
    /\ tpc[i] = "upd"
    /\ IF ~display_enabled
         THEN /\ tpc' = [tpc EXCEPT ![i] = "sleep"]
              /\ tsleep' = [tsleep EXCEPT ![i] = LoopSleep(FALSE)]
              /\ last_tick' = [last_tick EXCEPT !.late = LateTicks(i), !.lateby = i]
              /\ UNCHANGED <<voltage_monitor_start_time, panel, frame, last_active>>
         ELSE LET pending == LapPending(show_race_info, race_info_timeout, now)
                  active == is_race_active(race_status)
                  branch == SelectBranch(pending, active)
                  attempt == CASE branch = "LapNotice" ->
                                     IF last_lap_info = <<>> THEN "None" ELSE "LapNotice"
                               [] branch = "RaceStanding" -> "RaceStanding"
                               [] OTHER -> "None"
                  failed == attempt # "None" /\ RenderRaises(attempt, panel_ok, font, sensors)
                  drawn == IF failed THEN "None" ELSE attempt
              IN  /\ last_tick' = [t |-> now, t2 |-> NoTime, by |-> i,
                                   pending |-> show_race_info /\ now < race_info_timeout,
                                   consulted |-> branch # "LapNotice",
                                   status |-> race_status, dur |-> NoTime,
                                   mode |-> branch, drawn |-> drawn,
                                   prev |-> last_tick.mode, injT |-> lap_T,
                                   failed |-> failed,
                                   streak |-> IF last_tick.failed
                                                THEN last_tick.streak + 1 ELSE 0,
                                   late |-> LateTicks(i), lateby |-> i]
                  /\ panel' = IF drawn = "None" THEN panel ELSE drawn
                  /\ frame' = CASE drawn = "LapNotice" -> LapFrame(last_lap_info[1])
                                [] drawn = "RaceStanding" -> RaceFrame(race_status, results)
                                [] OTHER -> frame
                  /\ voltage_monitor_start_time' =
                         IF branch = "RaceStanding"
                           THEN RaceStart(voltage_monitor_start_time, now)
                           ELSE voltage_monitor_start_time
                  /\ last_active' = IF branch = "Idle" THEN last_active ELSE now
                  /\ IF branch = "Idle"
                       THEN /\ tpc' = [tpc EXCEPT ![i] = "idle1"]
                            /\ UNCHANGED tsleep
                       ELSE /\ tpc' = [tpc EXCEPT ![i] = "sleep"]
                            /\ tsleep' = [tsleep EXCEPT ![i] =
                                             LoopSleep(update_display_raises(failed))]
    /\ UNCHANGED <<envVars, plugin_rhapi, oled_display, display, display_enabled,
                   show_race_info, last_lap_info, race_info_timeout,
                   burn_in_protection_active, display_thread, thread_running,
                   ctxVars, tborn, laps, startup_fired, shutdowns, cleanups,
                   cleanup_clears, shutdown_during_delay, lap_T, detVars, faultVars,
                   bootVars, lap_args>>

\* line 121: self.show_race_info = False
UpdateIdleShow(i) ==
    /\ tpc[i] = "idle1"
    /\ show_race_info' = FALSE
    /\ tpc' = [tpc EXCEPT ![i] = "idle2"]
    /\ UNCHANGED <<envVars, plugin_rhapi, oled_display, display, display_enabled,
                   last_lap_info, race_info_timeout, voltage_monitor_start_time,
                   burn_in_protection_active, display_thread, thread_running,
                   ctxVars, tsleep, tborn, panel, histVars,
                   detVars, faultVars, bootVars, frame, lap_args>>

\* lines 122-145: self.last_lap_info = None, the burn-in decision and the
\* frame of display_burn_in_protection or display_normal_voltage_monitor;
\* the state is assigned before the canvas is opened
UpdateIdleDraw(i) ==
    /\ tpc[i] = "idle2"
    /\ LET since == IdleSince(voltage_monitor_start_time, now)
           dur == now - since
           mode == IdleMode(dur)
           failed == RenderRaises(mode, panel_ok, font, sensors)
       IN  /\ last_lap_info' = <<>>
           /\ voltage_monitor_start_time' = since
           /\ burn_in_protection_active' = BurnInDue(dur)
           /\ panel' = IF failed THEN panel ELSE mode
           /\ frame' = IF failed THEN frame ELSE IdleFrame(mode, sensors, race_status)
           /\ last_tick' = [last_tick EXCEPT !.t2 = now, !.dur = dur, !.mode = mode,
                                             !.drawn = IF failed THEN "None" ELSE mode,
                                             !.failed = failed]
           /\ tsleep' = [tsleep EXCEPT ![i] = LoopSleep(update_display_raises(failed))]
    /\ tpc' = [tpc EXCEPT ![i] = "sleep"]
    /\ UNCHANGED <<envVars, plugin_rhapi, oled_display, display, display_enabled,
                   show_race_info, race_info_timeout, display_thread, thread_running,
                   ctxVars, tborn, laps, startup_fired, shutdowns, cleanups,
                   cleanup_clears, shutdown_during_delay, last_active, lap_T, detVars,
                   faultVars, bootVars, lap_args>>

\* The panel stops accepting frames, or accepts them again.
PanelChange ==
    /\ panel_changes < MaxPanelChanges
    /\ panel_changes' = panel_changes + 1
    /\ panel_ok' = ~panel_ok
    /\ UNCHANGED <<envVars, ctlVars, ctxVars, thrVars, panel, histVars, detVars, sensors,
                   results, bootVars, frame, lap_args>>

\* ---------------------------------------------------------- specifications
Tick ==
    \E i \in Threads : LoopTest(i) \/ UpdateSelect(i) \/ UpdateIdleShow(i) \/ UpdateIdleDraw(i)

StartDisplayThread ==
    \E c \in Contexts : StartGuard(c) \/ StartSetRunning(c) \/ StartCreate(c) \/ StartRun(c)

ShowLapCompletion == LapRecorded(GoodArgs(laps + 1)) \/ LapShow \/ LapTimeout

Cleanup == ShutdownHandler \/ StopJoin \/ JoinReturn \/ CleanupClear

\* The plugin's life cycle from module load on: initialize, the startup and
\* shutdown notifications, the delayed startup and the tick threads.  The
\* panel may hold up a tick for any length of time.
Next ==
    \/ Advance(LifeMaxTime, PanelIO)
    \/ Initialize
    \/ InitializeSettled
    \/ StartDisplayThread
    \/ StartupHandler
    \/ DelayedStartup
    \/ Cleanup
    \/ Tick

Spec == Init /\ [][Next]_vars

\* The running controller: initialize succeeded at EpochStart, the delayed
\* startup found the loop alive, and the loop has ticked through IdleAtStart
\* idle seconds.  From there on laps are recorded and the race changes status.
\* The panel answers at once: a tick ends within the second in which it began.
InitMode ==
    /\ InitCommon
    /\ NoFaults
    /\ race_status \in {0, 2}
    /\ DetIdle
    /\ font = "loaded"
    /\ init_outcome = "ok"
    /\ initialize_result = "True"
    /\ frame = VoltageMonitorFrame("ok", 0)
    /\ now = EpochStart + IdleAtStart
    /\ plugin_rhapi = TRUE
    /\ oled_display = TRUE
    /\ display = "sh1106"
    /\ display_enabled = TRUE
    /\ voltage_monitor_start_time = EpochStart
    /\ display_thread = 1
    /\ thread_running = TRUE
    /\ pc = [c \in Contexts |-> IF c = "host" THEN "idle" ELSE "done"]
    /\ timer = [c \in Contexts |-> 0]
    /\ tpc = [i \in Threads |-> IF i = 1 THEN "sleep" ELSE "unborn"]
    /\ tsleep \in {[i \in Threads |-> IF i = 1 THEN d ELSE 0] : d \in 0..(TickInterval - 1)}
    /\ tborn = [i \in Threads |-> 0]
    /\ panel = "VoltageMonitor"
    /\ startup_fired = TRUE

NextMode ==
    \/ Advance(EpochStart + IdleAtStart + ModeWindow, {})
    \/ StatusChange
    \/ ShowLapCompletion
    \/ Tick

SpecMode == InitMode /\ [][NextMode]_vars

\* The controller when initialize has just returned True, or after
\* IdleAtStart idle seconds.
Running(idle) ==
    /\ InitCommon
    /\ DetIdle
    /\ now = EpochStart + InitSettle + idle
    /\ plugin_rhapi = TRUE
    /\ oled_display = TRUE
    /\ display = "sh1106"
    /\ display_enabled = TRUE
    /\ font = "loaded"
    /\ init_outcome = "ok"
    /\ initialize_result = "True"
    /\ voltage_monitor_start_time = EpochStart
    /\ display_thread = 1
    /\ thread_running = TRUE
    /\ pc = [c \in Contexts |-> IF c = "host" THEN "idle" ELSE IF idle = 0 THEN "none" ELSE "done"]
    /\ timer = [c \in Contexts |-> 0]
    /\ tpc = [i \in Threads |-> IF i = 1 THEN (IF idle = 0 THEN "test" ELSE "sleep")
                                          ELSE "unborn"]
    /\ tsleep = [i \in Threads |-> 0]
    /\ tborn = [i \in Threads |-> 0]
    /\ startup_fired = (idle # 0)

\* The controller from the return of initialize on: startup and shutdown
\* notifications, the delayed startup, start and stop requests and the tick
\* threads, with a panel that answers at once.
InitStop ==
    /\ Running(0)
    /\ NoFaults
    /\ race_status = 0
    /\ panel = "blank"
    /\ frame = <<>>

\* The steps a context takes by itself once the host has called it.
ContextStep ==
    \/ StartDisplayThread
    \/ DelayedStartup
    \/ StopJoin
    \/ JoinReturn
    \/ CleanupClear

NextStop ==
    \/ Advance(LifeMaxTime, {})
    \/ StartupHandler
    \/ ShutdownHandler
    \/ ContextStep
    \/ Tick

\* The clock goes on and the interpreter keeps scheduling the contexts and
\* the tick threads; when the host sends its notifications is left open.
SpecStop ==
    /\ InitStop
    /\ [][NextStop]_vars
    /\ WF_vars(Advance(LifeMaxTime, {}))
    /\ WF_vars(ContextStep)
    /\ WF_vars(Tick)

\* The running controller with a telemetry provider of any kind and a panel
\* that may stop accepting frames.
InitFault ==
    /\ sensors \in SensorKinds
    /\ results \in ResultKinds
    /\ panel_ok = TRUE
    /\ panel_changes = 0
    /\ \E idle \in {0, IdleAtStart} :
          /\ Running(idle)
          /\ race_status \in (IF idle = 0 THEN RaceStatuses ELSE {NoRace, 0, 3})
          /\ IF idle = 0 \/ RenderRaises("VoltageMonitor", TRUE, "loaded", sensors)
               THEN panel = "blank" /\ frame = <<>>
               ELSE /\ panel = "VoltageMonitor"
                    /\ frame = VoltageMonitorFrame(sensors, race_status)

FaultCap ==
    EpochStart + InitSettle + FaultWindow + (IF now < EpochStart + IdleAtStart THEN 0 ELSE IdleAtStart)

NextFault ==
    \/ Advance(FaultCap, {})
    \/ PanelChange
    \/ Tick

SpecFault == InitFault /\ [][NextFault]_vars

\* The same controller with a clock that goes on and a tick thread that the
\* interpreter keeps scheduling.
SpecFaultLive ==
    SpecFault /\ WF_vars(Advance(FaultCap, {})) /\ WF_vars(Tick)

\* The running controller and lap-recorded notifications of every shape.
InitLap ==
    /\ NoFaults
    /\ race_status \in {0, 2}
    /\ Running(0)
    /\ panel = "blank"
    /\ frame = <<>>

NextLap ==
    \/ Advance(EpochStart + InitSettle + LapWindow, {})
    \/ \E a \in LapArgs : LapRecorded(a)
    \/ LapShow
    \/ LapTimeout
    \/ Tick

SpecLap == InitLap /\ [][NextLap]_vars

\* The running controller on the way to burn-in protection: lap events and
\* status changes happen during the first EventWindow seconds; afterwards
\* the clock goes on, with a tick thread that the interpreter keeps
\* scheduling and a host that finishes the lap handler it has begun.
QuietFrom == EpochStart + InitSettle + EventWindow

BurnCap == QuietFrom + BurnInAfter + 2 * TickInterval

NextBurn ==
    \/ Advance(BurnCap, {})
    \/ now < QuietFrom /\ StatusChange
    \/ now < QuietFrom /\ LapRecorded(GoodArgs(laps + 1))
    \/ LapShow
    \/ LapTimeout
    \/ Tick

SpecBurn ==
    /\ InitLap
    /\ [][NextBurn]_vars
    /\ WF_vars(Advance(BurnCap, {}))
    /\ WF_vars(LapShow \/ LapTimeout)
    /\ WF_vars(Tick)

\* ------------------------------------------- mode selection, two controllers
\* update_display run from line 105 to its return on a controller c at time
\* t with race status `status`: the controller afterwards and the mode drawn.
update_display(c, t, status) ==
    LET branch == SelectBranch(LapPending(c.show, c.timeout, t), is_race_active(status))
        since == IdleSince(c.vmst, t)
    IN  CASE branch = "LapNotice" -> [ctl |-> c, mode |-> "LapNotice"]
          [] branch = "RaceStanding" -> [ctl |-> [c EXCEPT !.vmst = RaceStart(c.vmst, t)],
                                         mode |-> "RaceStanding"]
          [] OTHER -> [ctl |-> [c EXCEPT !.show = FALSE, !.lap = <<>>, !.vmst = since,
                                         !.burn = BurnInDue(t - since)],
                       mode |-> IdleMode(t - since)]

\* What the mode is said to depend on: whether an unexpired lap event is
\* pending, the race status, and the idle duration.
SelectionInputs(c, t, status) == <<c.show /\ t < c.timeout, status, t - c.vmst>>

DetTimes == {EpochStart + BurnInAfter, EpochStart + BurnInAfter + 1}
DetStarts == {EpochStart, EpochStart + 1, EpochStart + BurnInAfter}
DetTimeouts == {0, EpochStart + BurnInAfter + 1, EpochStart + BurnInAfter + LapTTL}
Controllers ==
    [show : BOOLEAN, lap : {<<>>, <<LapInfo(1)>>}, timeout : DetTimeouts,
     vmst : DetStarts, burn : BOOLEAN]

\* Two controllers in arbitrary states, about to tick at the same time under
\* the same race status.
InitDet ==
    /\ InitCommon
    /\ NoFaults
    /\ race_status \in {0, 2}
    /\ font = "loaded"
    /\ init_outcome = "ok"
    /\ initialize_result = "True"
    /\ frame = <<>>
    /\ now \in DetTimes
    /\ twinA \in Controllers
    /\ twinB \in Controllers
    /\ det = [a |-> "None", b |-> "None", same |-> FALSE]
    /\ sensors_dict = <<>>
    /\ voltage_data = <<>>
    /\ draws = <<>>
    /\ plugin_rhapi = TRUE
    /\ oled_display = TRUE
    /\ display = "sh1106"
    /\ display_enabled = TRUE
    /\ voltage_monitor_start_time = EpochStart
    /\ display_thread = NoThread
    /\ thread_running = FALSE
    /\ pc = [c \in Contexts |-> IF c = "host" THEN "idle" ELSE "none"]
    /\ timer = [c \in Contexts |-> 0]
    /\ tpc = [i \in Threads |-> "unborn"]
    /\ tsleep = [i \in Threads |-> 0]
    /\ tborn = [i \in Threads |-> 0]
    /\ panel = "blank"
    /\ startup_fired = FALSE

TwinTick ==
    /\ det.a = "None"
    /\ LET ra == update_display(twinA, now, race_status)
           rb == update_display(twinB, now, race_status)
       IN  /\ twinA' = ra.ctl
           /\ twinB' = rb.ctl
           /\ det' = [a |-> ra.mode, b |-> rb.mode,
                      same |-> SelectionInputs(twinA, now, race_status)
                                 = SelectionInputs(twinB, now, race_status)]
    /\ UNCHANGED <<envVars, ctlVars, ctxVars, thrVars, panel, histVars, faultVars, bootVars,
                   frame, lap_args, sensors_dict, voltage_data, draws>>

NextDet == TwinTick

SpecDet == InitDet /\ [][NextDet]_vars

\* ------------------------------------------------- where the text is drawn
\* __init__ lines 23-24
width == 128
height == 64

\* What get_voltage_data hands over for one sensor: readings with the key
\* 'voltage', with 'voltage' and 'current', or with a key such as 'Voltage'
\* that line 164 accepts and line 323 does not.
Readings == {"v", "vi", "V"}

HasVoltage(r) == r \in {"v", "vi"}
HasCurrent(r) == r = "vi"

\* What a sensor of sensors_dict answers to getReadings(): one of the above,
\* readings without any voltage key, or an exception.
SensorReadings == Readings \cup {"temp", "raises"}

\* sensors_dict with 0..MaxSensors sensors
SensorDicts == UNION {[1..n -> SensorReadings] : n \in 0..MaxSensors}

\* get_voltage_data lines 161-169: some key contains 'voltage' in any case;
\* a sensor whose getReadings raises is skipped
Included(r) == r \in Readings

\* get_voltage_data lines 155-171: the readings of the included sensors, in
\* the order of sensors_dict; the empty sequence stands for None
VoltageSnapshot(dict) == SelectSeq(dict, Included)

\* draw.text((x, y), text, ...)
DrawText(x, y, text) == [x |-> x, y |-> y, text |-> text]

VoltageText == "Battery: 7.40V"
CurrentText == "  I: 1.5A"

\* display_normal_voltage_monitor lines 310-318, 341, 344, 376
y_start == 20
line_height == 12
SensorGap == 2
OverflowMargin == 20
FooterHeight == 12

\* line 344: if y_pos > self.height - 20: break
Overflow(y) == y > height - OverflowMargin

\* lines 322-345: the loop over the sensors from sensor k on, with y_pos = y
RECURSIVE SensorLines(_, _, _)
SensorLines(data, k, y) ==
    IF k > Len(data) THEN <<>>
    ELSE IF ~HasVoltage(data[k]) THEN SensorLines(data, k + 1, y)
    ELSE LET cur == IF HasCurrent(data[k])
                      THEN <<DrawText(5, y + line_height, CurrentText)>> ELSE <<>>
             y2 == y + line_height + Len(cur) * line_height + SensorGap
         IN  <<DrawText(5, y, VoltageText)>> \o cur
               \o (IF Overflow(y2) THEN <<>> ELSE SensorLines(data, k + 1, y2))

\* lines 354-367: the sensor count and the first two names, or 'Sensor
\* system' / 'not available' when sensors_dict is empty
SensorInfoLines(dict, y) ==
    IF dict # <<>>
      THEN <<DrawText(5, y, "Sensors: " \o NumStr(Len(dict)))>>
             \o [k \in 1..(IF Len(dict) < 2 THEN Len(dict) ELSE 2) |->
                    DrawText(5, y + k * line_height,
                             IF dict[k] = "temp" THEN "  Temp" ELSE "  Battery")]
      ELSE <<DrawText(5, y, "Sensor system"),
             DrawText(5, y + line_height, "not available")>>

\* display_normal_voltage_monitor: header, the sensor loop of line 320 or the
\* diagnostic of line 348, and the timestamp
display_normal_voltage_monitor(data, status, dict) ==
    <<DrawText(5, 0, IF get_race_status(status) # "None" THEN get_race_status(status)
                                                         ELSE "Voltage Monitor")>>
      \o (IF data # <<>>
            THEN SensorLines(data, 1, y_start)
            ELSE <<DrawText(5, y_start, "No voltage sensors")>>
                   \o SensorInfoLines(dict, y_start + line_height + SensorGap))
      \o <<DrawText(5, height - FooterHeight, "HH:MM:SS")>>

\* display_burn_in_protection lines 396-398
margin == 10
max_x == width - 50
max_y == height - 20

\* lines 383-390: the first sensor with the key 'voltage'
RECURSIVE BurnInText(_, _)
BurnInText(data, k) ==
    IF k > Len(data) THEN "No Data"
    ELSE IF HasVoltage(data[k]) THEN "7.4V" ELSE BurnInText(data, k + 1)

\* lines 401-406: the ranges of random.randint
XRange == margin..max_x
VoltageYRange == margin..(max_y \div 2)

\* the clock's range without the offset of 10
ClockYRange_noOffset == (max_y \div 2)..max_y

ClockYRange == (max_y \div 2 + 10)..max_y

\* The controller at rest, about to draw one frame.
InitDraw ==
    /\ InitCommon
    /\ NoFaults
    /\ race_status \in {0, 3}
    /\ font = "loaded"
    /\ init_outcome = "ok"
    /\ initialize_result = "True"
    /\ frame = <<>>
    /\ now = EpochStart + InitSettle
    /\ twinA = [show |-> FALSE, lap |-> <<>>, timeout |-> 0, vmst |-> EpochStart, burn |-> FALSE]
    /\ twinB = twinA
    /\ det = [a |-> "None", b |-> "None", same |-> FALSE]
    /\ draws = <<>>
    /\ plugin_rhapi = TRUE
    /\ oled_display = TRUE
    /\ display = "sh1106"
    /\ display_enabled = TRUE
    /\ voltage_monitor_start_time = EpochStart
    /\ display_thread = NoThread
    /\ thread_running = FALSE
    /\ pc = [c \in Contexts |-> IF c = "host" THEN "idle" ELSE "none"]
    /\ timer = [c \in Contexts |-> 0]
    /\ tpc = [i \in Threads |-> "unborn"]
    /\ tsleep = [i \in Threads |-> 0]
    /\ tborn = [i \in Threads |-> 0]
    /\ panel = "blank"
    /\ startup_fired = FALSE

\* update_display lines 132-142 before burn-in is due: get_voltage_data and
\* display_normal_voltage_monitor on its snapshot
DrawVoltageMonitor ==
    /\ draws = <<>>
    /\ voltage_data' = VoltageSnapshot(sensors_dict)
    /\ draws' = display_normal_voltage_monitor(voltage_data', race_status, sensors_dict)
    /\ UNCHANGED <<envVars, ctlVars, ctxVars, thrVars, panel, histVars, faultVars, bootVars,
                   frame, lap_args, twinA, twinB, det, sensors_dict>>

InitLayout == InitDraw /\ sensors_dict \in SensorDicts /\ voltage_data = <<>>

NextLayout == DrawVoltageMonitor

SpecLayout == InitLayout /\ [][NextLayout]_vars

\* display_burn_in_protection with any outcome of its four random.randint calls
DrawBurnIn ==
    /\ draws = <<>>
    /\ \E voltage_x \in XRange, voltage_y \in VoltageYRange,
          time_x \in XRange, time_y \in ClockYRange :
          draws' = <<DrawText(voltage_x, voltage_y, BurnInText(voltage_data, 1)),
                     DrawText(time_x, time_y, "HH:MM")>>
    /\ UNCHANGED <<envVars, ctlVars, ctxVars, thrVars, panel, histVars, faultVars, bootVars,
                   frame, lap_args, twinA, twinB, det, sensors_dict, voltage_data>>

\* no snapshot (None), or one whose second sensor is the first with 'voltage'
InitGuard ==
    /\ InitDraw
    /\ race_status = 0
    /\ sensors_dict \in {<<>>, <<"V", "vi">>}
    /\ voltage_data = VoltageSnapshot(sensors_dict)

NextGuard == DrawBurnIn

SpecGuard == InitGuard /\ [][NextGuard]_vars

\* ------------------------------------------------------------------ claims
InTick(i) == tpc[i] \in {"upd", "idle1", "idle2"}

\* C1: a lap event injected at time T is rendered as LapNotice at every tick
\* that runs at a time t with T <= t < T + 5, and at no tick with t >= T + 5.
C1_LapShownForFiveSeconds ==
    (last_tick.t # NoTime /\ last_tick.injT # NoTime) =>
        /\ (last_tick.injT <= last_tick.t /\ last_tick.t < last_tick.injT + LapTTL)
              => (last_tick.mode = "LapNotice" /\ last_tick.drawn = "LapNotice")
        /\ last_tick.t >= last_tick.injT + LapTTL => last_tick.mode # "LapNotice"

\* C2: at every tick where a lap event is pending and unexpired the tick
\* selects LapNotice whatever the race status, draws neither the standings
\* nor the voltage monitor, and does not consult the race status; the race
\* status is consulted only when no unexpired lap event exists.
C2_LapNoticePrecedence ==
    last_tick.t # NoTime =>
        /\ last_tick.pending =>
              /\ last_tick.mode = "LapNotice"
              /\ last_tick.drawn \in {"LapNotice", "None"}
              /\ panel \notin {"RaceStanding", "VoltageMonitor", "BurnInGuard"}
                   \/ last_tick.drawn = "None"
        /\ last_tick.consulted => ~last_tick.pending

\* a lap notice drawn while the race is Racing
C2_Witness ==
    /\ last_tick.pending
    /\ last_tick.status = 2
    /\ last_tick.mode = "LapNotice"
    /\ last_tick.drawn = "LapNotice"
    /\ panel = "LapNotice"

C4_BurnInAtSixty_Stated ==
    last_tick.mode \in IdleModes =>
        (last_tick.mode = "BurnInGuard" <=> last_tick.dur >= BurnInAfter)

\* C4 amended: at an idle tick the mode is BurnInGuard if and only if
\* now - idle_since > 60, and VoltageMonitor otherwise; an idle duration of
\* exactly 60 seconds selects VoltageMonitor.
C4_BurnInAfterSixty ==
    /\ last_tick.mode \in IdleModes =>
          /\ last_tick.mode = "BurnInGuard" <=> last_tick.dur > BurnInAfter
          /\ ~last_tick.pending /\ last_tick.status \notin {1, 2}
    /\ (last_tick.t2 # NoTime /\ ~last_tick.pending /\ last_tick.status \notin {1, 2})
          => last_tick.mode \in IdleModes

\* an idle tick at exactly 60 seconds, and one after it
C4_Witness ==
    /\ last_tick.mode = "VoltageMonitor"
    /\ last_tick.dur = BurnInAfter

\* C5: BurnInGuard is selected only after 60 seconds without a tick that
\* selected LapNotice or RaceStanding.
C5_BurnInOnlyAfterIdleMinute ==
    (last_tick.mode = "BurnInGuard" /\ last_active # NoTime) =>
        last_tick.t2 - last_active >= BurnInAfter

\* C6: every tick selects exactly one of the four modes, and two controllers
\* with the same pending-lap flag, race status and idle duration select the
\* same mode.
C6_ModeDeterminedByInputs ==
    det.a # "None" =>
        /\ det.a \in Modes
        /\ det.b \in Modes
        /\ det.same => det.a = det.b

\* two controllers that differ in their stored state, agree on the inputs
\* and have ticked
C6_Witness ==
    /\ det.same
    /\ det.a = "BurnInGuard"
    /\ det.b = "BurnInGuard"
    /\ twinA.timeout # twinB.timeout

\* C7: after cleanup has returned no tick runs.
C7_NoTickAfterCleanup ==
    cleanups >= 1 => \A i \in Threads : ~InTick(i)

\* C8: if a shutdown runs while delayed_startup is waiting, no tick loop is
\* started after that shutdown has completed.
C8_NoLoopAfterShutdownInDelay ==
    shutdown_during_delay # 0 =>
        \A i \in Threads : tpc[i] # "unborn" => tborn[i] < shutdown_during_delay

\* C9: the second of two shutdowns of an initialized display does not clear
\* the panel again.
C9_SecondShutdownNoClear ==
    (display_enabled /\ cleanups >= 2) => cleanup_clears <= 1

Ctl ==
    [show |-> show_race_info, lap |-> last_lap_info, timeout |-> race_info_timeout,
     vmst |-> voltage_monitor_start_time, burn |-> burn_in_protection_active]

\* a statement of lap_recorded_handler or show_lap_completion is executed
LapStep ==
    \/ laps' # laps
    \/ pc["host"] \in {"lap_show", "lap_timeout"} /\ pc'["host"] # pc["host"]

TickDone == last_tick.t # NoTime /\ tpc[last_tick.by] = "sleep"

\* C11: lap_recorded_handler and show_lap_completion only write the pending
\* lap-event slot; they draw nothing on the panel, leave the tick thread
\* alone and do not wait for it.  A LapNotice frame is put on the panel only
\* by the tick thread, in the step that begins one of its ticks.
C11_LapHandoff ==
    /\ [](pc["host"] = "lap_show" => ENABLED LapShow)
    /\ [](pc["host"] = "lap_timeout" => ENABLED LapTimeout)
    /\ [][/\ LapStep => /\ panel' = panel
                        /\ frame' = frame
                        /\ last_tick' = last_tick
                        /\ tpc' = tpc
                        /\ tsleep' = tsleep
                        /\ pc'["host"] \in {"idle", "lap_show", "lap_timeout"}
          /\ (panel' = "LapNotice" /\ <<panel, frame>>' # <<panel, frame>>) =>
                \E i \in Threads : /\ tpc[i] = "upd"
                                   /\ tpc'[i] = "sleep"
                                   /\ last_tick'.t = now
                                   /\ last_tick'.by = i
                                   /\ last_tick'.pending]_vars

\* the first lap was handed over and the tick thread has drawn its notice
C11_Witness ==
    /\ laps = 1
    /\ pc["host"] = "idle"
    /\ lap_T # NoTime
    /\ last_tick.injT = lap_T
    /\ last_tick.drawn = "LapNotice"
    /\ frame = LapFrame(HandlerCall(GoodArgs(3)))

\* C12: when a tick fails with an error (telemetry access or rendering raises
\* during update_display), the next tick starts 5 seconds later instead of 2.
C12_ErrorBackoff ==
    (TickDone /\ last_tick.failed) =>
        (now - last_tick.t) + tsleep[last_tick.by] >= ErrorDelay

\* C13: if the panel cannot be opened or cleared at startup, initialize
\* returns False with display_enabled False, and no tick loop is ever
\* started, not by initialize and not by the delayed startup.
C13_NoLoopAfterFailedInit ==
    init_outcome \in {"no_panel", "clear_fails"} =>
        /\ initialize_result = "False"
        /\ ~display_enabled
        /\ ~thread_running
        /\ display_thread = NoThread
        /\ \A i \in Threads : tpc[i] = "unborn"
        /\ \A c \in Contexts : pc[c] \notin {"init_sleep", "start_set", "start_create", "start_run"}

\* the delayed startup has run to its end after a failed initialization
C13_Witness ==
    /\ init_outcome = "clear_fails"
    /\ initialize_result = "False"
    /\ pc["delayed"] = "done"
    /\ \A i \in Threads : tpc[i] = "unborn"

\* C14: if neither the TrueType font nor the default font can be loaded at
\* startup, initialization fails: display_enabled is False, initialize
\* returns False and no tick loop starts.
C14_NoFontFailsInit ==
    (init_outcome \in {"ok", "clear_fails"} /\ font = "None") =>
        /\ ~display_enabled
        /\ initialize_result = "False"
        /\ \A i \in Threads : tpc[i] = "unborn"

\* C15: once max_errors frame commits in a row have failed, the following
\* ticks no longer attempt the rendering of VoltageMonitor, RaceStanding or
\* LapNotice; they draw the minimal BurnInGuard output or blank the panel.
C15_RepeatedFailureDegrades ==
    last_tick.streak >= max_errors => last_tick.mode \in {"Idle", "BurnInGuard", "Blank"}

\* C16: a tick whose frame commit raises leaves show_race_info,
\* last_lap_info, race_info_timeout, voltage_monitor_start_time and
\* burn_in_protection_active as the same tick with a successful commit
\* leaves them, and the error does not leave update_display: the loop goes
\* on to its sleep of 2 seconds.
C16_FailedCommitKeepsState ==
    [][\A i \in Threads :
          (tpc[i] \in {"upd", "idle2"} /\ tpc'[i] = "sleep" /\ last_tick'.failed) =>
              /\ Ctl' = update_display(Ctl, now, race_status).ctl
              /\ tsleep'[i] = TickInterval
              /\ thread_running' = thread_running]_vars

\* an idle tick after more than 60 idle seconds on a panel that rejects the
\* frame: the burn-in flag is set all the same
C16_Witness ==
    /\ TickDone
    /\ last_tick.failed
    /\ ~panel_ok
    /\ last_tick.mode = "BurnInGuard"
    /\ burn_in_protection_active
    /\ panel = "VoltageMonitor"

\* C17: with no voltage sensors and no race data a tick does not raise and
\* draws a diagnostic frame: in VoltageMonitor the generic title, the line
\* "No voltage sensors" and what is known of the sensor system, and the
\* timestamp; in BurnInGuard "No Data" and the clock.
C17_DiagnosticFrame ==
    (/\ get_voltage_data(sensors) = "None"
     /\ race_status = NoRace
     /\ panel_changes = 0
     /\ TickDone) =>
        /\ ~last_tick.failed
        /\ last_tick.drawn = last_tick.mode
        /\ last_tick.mode = "VoltageMonitor" =>
              /\ Len(frame) >= 4
              /\ frame[1] = Text("Voltage Monitor")
              /\ frame[2] = Text("No voltage sensors")
              /\ frame[3] \in {Text("Sensor system"), Text("Sensors: 1"), Text("Sensor error")}
              /\ frame[Len(frame)] = Text("HH:MM:SS")
        /\ last_tick.mode = "BurnInGuard" => frame = <<Text("No Data"), Text("HH:MM")>>
        /\ last_tick.mode \in IdleModes

\* burn-in protection without any sensor interface and without a race
C17_Witness ==
    /\ sensors = "absent"
    /\ race_status = NoRace
    /\ TickDone
    /\ last_tick.mode = "BurnInGuard"
    /\ frame = <<Text("No Data"), Text("HH:MM")>>

\* C18: every tick with the display enabled and a working panel commits
\* exactly one new frame, also when the telemetry provider is absent, raises
\* or returns malformed readings.
C18_FrameEveryTick ==
    (display_enabled /\ panel_changes = 0 /\ TickDone) =>
        (last_tick.drawn # "None" /\ ~last_tick.failed)

\* the fields show_lap_completion is called with are the defaults where the
\* notification lacks them
DefaultsUsed(a, call) ==
    /\ a.pilot \in {"none", "unknown"} => call.pilot_name = "Unknown"
    /\ (a.number = NoNumber \/ a.lap = "other") => call.lap_number = 0
    /\ (a.time = "missing" \/ a.lap = "other") => call.lap_time = "N/A"

\* C19 as stated: for every notification with missing or malformed fields,
\* the empty argument mapping included, lap_recorded_handler does not raise
\* and injects a lap event with the defaults "Unknown", 0 and "N/A".
C19_DefaultsForMalformed_Stated ==
    laps > 0 =>
        /\ lap_args.call # <<>>
        /\ DefaultsUsed(lap_args.args, lap_args.call[1])

\* C19 amended: for every notification with a non-empty argument mapping and
\* missing or malformed fields (no pilot id or unknown pilot, no lap object,
\* a lap object of an unexpected type, no lap number, no lap time),
\* lap_recorded_handler does not raise and injects a lap event with the
\* defaults "Unknown", 0 and "N/A"; an empty argument mapping is ignored: no
\* lap event is injected.
C19_DefaultsForMalformed ==
    laps > 0 =>
        IF lap_args.args.empty
          THEN /\ lap_args.call = <<>>
               /\ pc["host"] = "idle"
               /\ laps = 1 => (lap_T = NoTime /\ ~show_race_info /\ last_lap_info = <<>>)
          ELSE /\ lap_args.call # <<>>
               /\ DefaultsUsed(lap_args.args, lap_args.call[1])
               /\ pc["host"] = "lap_show" => last_lap_info \in {lap_args.call, <<>>}
               /\ (pc["host"] = "idle" /\ laps = 1) =>
                     (lap_T # NoTime /\ race_info_timeout = lap_T + LapTTL)

\* a notification with an unknown pilot and a lap of an unexpected type was
\* handed over and drawn with the three defaults
C19_Witness ==
    /\ lap_args.args.pilot = "unknown"
    /\ lap_args.args.lap = "other"
    /\ pc["host"] = "idle"
    /\ last_tick.drawn = "LapNotice"
    /\ frame = <<Text("LAP COMPLETED"), <<"Pilot: ", "Unknown">>, <<"Lap: ", "0">>,
                 <<"Time: ", "N/A">>, <<"Position: ", "None">>>>

\* C20: the settle delay and the start of the tick loop run on a background
\* context: initialize and the startup handler return without sleeping and
\* without starting the loop themselves, and no tick runs before the settle
\* delay that follows the startup notification has elapsed.
C20_DeferredStartup ==
    /\ pc["host"] \notin {"init_sleep", "start_check", "start_set", "start_create", "start_run"}
    /\ \A i \in Threads :
          tpc[i] # "unborn" =>
              pc["delayed"] \in {"start_create", "start_run", "done"}

\* C21: every tick that selects RaceStanding sets voltage_monitor_start_time
\* to the current time, and the first idle tick after a RaceStanding tick
\* sees an idle duration no larger than the time since that tick.
C21_RaceStandingResetsIdleTimer ==
    /\ (TickDone /\ last_tick.mode = "RaceStanding") =>
          (voltage_monitor_start_time = last_tick.t /\ last_active = last_tick.t)
    /\ (last_tick.prev = "RaceStanding" /\ last_tick.mode \in IdleModes) =>
          /\ last_tick.dur >= 0
          /\ last_tick.dur <= last_tick.t2 - last_active

\* the first idle tick, two seconds after a RaceStanding tick
C21_Witness ==
    /\ last_tick.prev = "RaceStanding"
    /\ last_tick.mode = "VoltageMonitor"
    /\ last_tick.dur = TickInterval
    /\ voltage_monitor_start_time = last_active

\* C29: in every reachable state show_race_info = True with an unexpired
\* race_info_timeout implies that last_lap_info is a lap record, and a tick
\* that selects LapNotice draws the notice.
C29_LapStateNeverTorn ==
    /\ LapPending(show_race_info, race_info_timeout, now) => last_lap_info # <<>>
    /\ last_tick.mode = "LapNotice" => last_tick.drawn = "LapNotice"

\* C30: a lap event injected while an earlier one is pending replaces it and
\* restarts the window: until 5 seconds after the most recent injection the
\* pending slot holds the most recent event with its own expiry time.
C30_LatestLapReplaces ==
    (lap_args.over /\ pc["host"] = "idle" /\ now < lap_T + LapTTL) =>
        /\ show_race_info
        /\ last_lap_info = lap_args.call
        /\ race_info_timeout = lap_T + LapTTL

\* C25: the 'Position' line of the LapNotice frame is drawn only when the lap
\* event carries a position; for a lap event without one the frame is exactly
\* the header, pilot, lap number and lap time lines.
C25_PositionOnlyWhenGiven ==
    (TickDone /\ last_tick.drawn = "LapNotice" /\ panel = "LapNotice") =>
        /\ \A k \in 1..Len(frame) :
              frame[k][1] = "Position: " => frame[k][2] # "None"
        /\ Len(frame) = 4

\* C26: in RaceStanding mode, whenever no standings are available (results
\* absent, results without 'by_race_time', or an empty standings list) the
\* body is the two-line placeholder 'Waiting for' / 'race data...'; the body
\* under the header is never empty.
C26_WaitingPlaceholder ==
    (TickDone /\ last_tick.drawn = "RaceStanding" /\ panel = "RaceStanding") =>
        /\ Len(frame) > 1
        /\ results \in {"none", "no_key", "empty"} =>
              /\ Len(frame) = 3
              /\ frame[2] = Text("Waiting for")
              /\ frame[3] = Text("race data...")

\* C22: the tick loop keeps running through errors.  While the running flag
\* is set no step ends the loop, and after every tick, failed or not, whose
\* sleep ends inside the window another tick begins.
C22_LoopSurvivesErrors ==
    /\ [][\A i \in Threads :
             (tpc[i] # "dead" /\ tpc'[i] = "dead") => ~thread_running]_vars
    /\ (\E i \in Threads : /\ tpc[i] = "sleep"
                           /\ thread_running
                           /\ now + tsleep[i] <= FaultCap)
          ~> (\E i \in Threads : tpc[i] = "upd")

\* a tick begins after two ticks in a row have failed
C22_Witness ==
    /\ last_tick.failed
    /\ last_tick.streak >= 1
    /\ tpc[last_tick.by] = "upd"
    /\ thread_running

C24_BurnInReachedAndStable ==
    /\ <>[](race_status \notin {1, 2}) => <>(last_tick.mode = "BurnInGuard")
    /\ [](last_tick.prev = "BurnInGuard" /\ last_tick.mode \in IdleModes
              => /\ last_tick.mode = "BurnInGuard"
                 /\ burn_in_protection_active)

\* burn-in protection stays selected, after a race and a lap notice earlier
C24_Witness ==
    /\ last_tick.prev = "BurnInGuard"
    /\ last_tick.mode = "BurnInGuard"
    /\ panel = "BurnInGuard"
    /\ laps >= 1
    /\ status_changes >= 1
    /\ voltage_monitor_start_time > EpochStart

\* C27: in VoltageMonitor mode no sensor line (voltage or current) is drawn
\* at a y-coordinate whose 12-pixel row overlaps the row of the timestamp
\* footer at y = height - 12 = 52 or leaves the 64-pixel panel, for every
\* sequence of sensors with or without a current reading.
C27_FooterRowReserved ==
    \A k \in 1..Len(draws) :
        draws[k].text \in {VoltageText, CurrentText} =>
            /\ draws[k].y + line_height <= height - FooterHeight
            /\ draws[k].y + line_height <= height

\* C28: in BurnInGuard mode exactly two strings are drawn, the first voltage
\* reading or 'No Data' and the HH:MM clock; for every random draw x lies in
\* 10..width-50, the voltage's y in 10..(height-20) div 2 and the clock's y
\* in (height-20) div 2 + 10..height-20, all inside the panel; the voltage is
\* drawn above the clock, 10 pixels apart or more, and no range is empty.
C28_BurnInPositions ==
    /\ XRange # {} /\ VoltageYRange # {} /\ ClockYRange # {}
    /\ draws # <<>> =>
          /\ Len(draws) = 2
          /\ draws[1].text = (IF voltage_data = <<>> THEN "No Data" ELSE "7.4V")
          /\ draws[2].text = "HH:MM"
          /\ \A k \in 1..2 : /\ 10 <= draws[k].x /\ draws[k].x <= width - 50
                             /\ 0 <= draws[k].y /\ draws[k].y < height
                             /\ draws[k].x < width
          /\ 10 <= draws[1].y /\ draws[1].y <= (height - 20) \div 2
          /\ (height - 20) \div 2 + 10 <= draws[2].y /\ draws[2].y <= height - 20
          /\ draws[1].y + 10 <= draws[2].y

\* the two strings as close as the ranges let them come, at the right margin
C28_Witness ==
    /\ draws # <<>>
    /\ draws[1] = DrawText(78, 22, "7.4V")
    /\ draws[2] = DrawText(78, 32, "HH:MM")

\* C31: the voltage snapshot and the VoltageMonitor body agree.  The first
\* sensor that get_voltage_data includes in the snapshot, for which there is
\* always vertical space, yields the body line at y = 20; a VoltageMonitor
\* frame has at least one body line between header and footer, a sensor line
\* or the 'No voltage sensors' diagnostic.
C31_SnapshotAndBodyAgree ==
    draws # <<>> =>
        /\ Len(draws) >= 3
        /\ draws[2].y = y_start
        /\ draws[2].text = (IF voltage_data # <<>> THEN VoltageText
                                                   ELSE "No voltage sensors")

====
